---- MODULE Spec2Model ----
(***************************************************************************)
(* Model of tlsutils/common_key.go: parsePrivateKeyPEM, the keyParsers     *)
(* registry and privateKeyToAlgorithm, together with the library calls     *)
(* they make (pem.Decode, x509.ParsePKCS1PrivateKey, x509.ParseECPrivate-  *)
(* Key, x509.ParsePKCS8PrivateKey) and the preamble classifier             *)
(* pemBlockToPEMPreamble.                                                  *)
(*                                                                         *)
(* An input (a []byte) is modelled line by line: a record                  *)
(*     [lines |-> <<line, ...>>, nl |-> BOOLEAN]                           *)
(* where nl says whether the last line is terminated by "\n".  A line is   *)
(*     [k |-> "BEGIN", label]       -----BEGIN <label>-----                *)
(*     [k |-> "END", label, junk]   -----END <label>-----  (junk: followed *)
(*                                  on the same line by non-blank bytes)   *)
(*     [k |-> "DATA", der]          the complete, '='-padded base64 text   *)
(*                                  of the DER payload der                 *)
(*     [k |-> "TEXT"]               text that is neither base64 nor a      *)
(*                                  header nor a boundary                  *)
(*     [k |-> "EMPTY"]              a blank line                           *)
(* A DER payload is [enc, alg, id]: its encoding convention, the algorithm *)
(* of the key inside and the key material (an identifier).                 *)
(***************************************************************************)
EXTENDS Integers, Sequences, FiniteSets, TLC

VARIABLES
    registry,   \* the package-level map keyParsers
    hasECDH,    \* whether the toolchain's x509 decodes X25519 keys (crypto/ecdh, Go >= 1.20)
    call,       \* the call to be made: its kind and arguments
    op,         \* the last operation performed
    input,      \* keyPEMBytes of the last call
    result,     \* what the last call returned
    aux,        \* operation-specific bookkeeping of the last call
    history,    \* the <<input, result>> pairs of the calls of a call sequence
    ncalls      \* number of calls of a call sequence

vars == <<registry, hasECDH, call, op, input, result, aux, history, ncalls>>

----------------------------------------------------------------------------
(* Bounds *)

MaxLines == 3
MaxTrail == 2
NumKeys == 1
MaxCalls == 3

----------------------------------------------------------------------------
(* Enumerations *)

RSA == "RSA"
ECDSA == "ECDSA"
ED25519 == "ED25519"
Algorithms == {RSA, ECDSA, ED25519}

PreamblePrivateKeyRSA == "RSA PRIVATE KEY"
PreamblePrivateKeyEC == "EC PRIVATE KEY"
PreamblePrivateKeyPKCS8 == "PRIVATE KEY"
Preambles == {PreamblePrivateKeyRSA, PreamblePrivateKeyEC, PreamblePrivateKeyPKCS8}

NilKey == [shape |-> "nil"]
NilErr == [kind |-> "nil"]
NilBlock == [Type |-> "nil"]
EmptyInput == [lines |-> <<>>, nl |-> FALSE]

----------------------------------------------------------------------------
(* Byte lengths *)

\* len() of a DER payload; no length is a multiple of 3, so that its base64
\* text ends in padding.
DerLen(der) ==
    CASE der.enc = "PKCS1" -> 1190
      [] der.enc = "SEC1" -> 121
      [] der.enc = "PKCS8" -> 50
      [] OTHER -> 7

B64Len(der) == 4 * ((DerLen(der) + 2) \div 3)

LineLen(l) ==
    CASE l.k = "BEGIN" -> 11 + Len(l.label) + 5
      [] l.k = "END" -> 9 + Len(l.label) + 5 + (IF l.junk THEN 1 ELSE 0)
      [] l.k = "DATA" -> B64Len(l.der)
      [] l.k = "TEXT" -> 5
      [] OTHER -> 0

RECURSIVE SumLen(_)
SumLen(ls) == IF ls = <<>> THEN 0 ELSE LineLen(Head(ls)) + SumLen(Tail(ls))

\* len(data)
ByteLen(data) ==
    IF data.lines = <<>> THEN 0
    ELSE SumLen(data.lines) + Len(data.lines) - (IF data.nl THEN 0 ELSE 1)

----------------------------------------------------------------------------
(* encoding/pem *)

\* rest[from:] as an input
Suffix(data, from) ==
    IF from > Len(data.lines) THEN EmptyInput
    ELSE [lines |-> SubSeq(data.lines, from, Len(data.lines)), nl |-> data.nl]

\* index of the first line of kind k at or after from, 0 if none
RECURSIVE FirstOf(_, _, _)
FirstOf(ls, k, from) ==
    IF from > Len(ls) THEN 0
    ELSE IF ls[from].k = k THEN from
    ELSE FirstOf(ls, k, from + 1)

\* the lines strictly between the BEGIN line i and the END line j
Body(ls, i, j) == SubSeq(ls, i + 1, j - 1)

\* base64.StdEncoding.Decode of the body: ok iff every line is base64 text
\* or blank and no text follows padding
BodyOK(body) ==
    /\ \A n \in 1..Len(body) : body[n].k \in {"DATA", "EMPTY"}
    /\ Cardinality({n \in 1..Len(body) : body[n].k = "DATA"}) <= 1

BodyBytes(body) ==
    IF \E n \in 1..Len(body) : body[n].k = "DATA"
    THEN body[FirstOf(body, "DATA", 1)].der
    ELSE [enc |-> "EMPTY", alg |-> "none", id |-> 0]

\* pem.Decode(data) resumed at line `from`: the first block that frames
\* correctly and the input after it, or no block and the whole input.
RECURSIVE DecodeFrom(_, _)
DecodeFrom(data, from) ==
    LET ls == data.lines
        i == FirstOf(ls, "BEGIN", from)
        j == FirstOf(ls, "END", i + 1)
    IN  IF i = 0 THEN [block |-> NilBlock, rest |-> data]
        ELSE IF i = Len(ls) THEN [block |-> NilBlock, rest |-> data]
        ELSE IF j = 0 THEN DecodeFrom(data, i + 1)
        ELSE IF ls[j].label # ls[i].label THEN DecodeFrom(data, i + 1)
        ELSE IF ls[j].junk THEN DecodeFrom(data, i + 1)
        ELSE IF ~BodyOK(Body(ls, i, j)) THEN DecodeFrom(data, i + 1)
        ELSE [block |-> [Type |-> ls[i].label, Bytes |-> BodyBytes(Body(ls, i, j))],
              rest |-> Suffix(data, j + 1)]

Decode(data) == DecodeFrom(data, 1)

----------------------------------------------------------------------------
(* crypto/x509 *)

Ok(key) == [key |-> key, err |-> NilErr]
Fail(msg) == [key |-> NilKey, err |-> [msg |-> msg]]

\* the diagnostic a legacy parser gives for a payload of another convention
OtherFormat(der) ==
    CASE der.enc = "PKCS1" -> "x509: failed to parse private key (use ParsePKCS1PrivateKey instead for this key format)"
      [] der.enc = "SEC1" -> "x509: failed to parse private key (use ParseECPrivateKey instead for this key format)"
      [] der.enc = "PKCS8" -> "x509: failed to parse private key (use ParsePKCS8PrivateKey instead for this key format)"
      [] OTHER -> "asn1: syntax error"

ParsePKCS1PrivateKey(der) ==
    IF der.enc = "PKCS1" THEN Ok([shape |-> "*rsa.PrivateKey", id |-> der.id])
    ELSE Fail(OtherFormat(der))

ParseECPrivateKey(der) ==
    IF der.enc = "SEC1" THEN Ok([shape |-> "*ecdsa.PrivateKey", id |-> der.id])
    ELSE Fail(OtherFormat(der))

ParsePKCS8PrivateKey(der, ecdh) ==
    IF der.enc # "PKCS8" THEN Fail(OtherFormat(der))
    ELSE CASE der.alg = RSA -> Ok([shape |-> "*rsa.PrivateKey", id |-> der.id])
           [] der.alg = ECDSA -> Ok([shape |-> "*ecdsa.PrivateKey", id |-> der.id])
           [] der.alg = ED25519 -> Ok([shape |-> "ed25519.PrivateKey", id |-> der.id])
           [] der.alg = "X25519" /\ ecdh -> Ok([shape |-> "*ecdh.PrivateKey", id |-> der.id])
           [] OTHER -> Fail("x509: PKCS#8 wrapping contained private key with unknown algorithm")

----------------------------------------------------------------------------
(* tlsutils *)

\* The classifier: a fixed lookup from the envelope's label to a Preamble.
pemBlockToPEMPreamble(block) ==
    IF block.Type \in Preambles
    THEN [preamble |-> block.Type, err |-> NilErr]
    ELSE [preamble |-> "", err |-> [kind |-> "UnrecognizedPreamble", label |-> block.Type]]

\* keyParsers with the two legacy routines exchanged
keyParsers_Swapped ==
    (PreamblePrivateKeyRSA :> "ParseECPrivateKey")
    @@ (PreamblePrivateKeyEC :> "ParsePKCS1PrivateKey")
    @@ (PreamblePrivateKeyPKCS8 :> "ParsePKCS8PrivateKey")

\* keyParsers without the entry of the EC preamble
keyParsers_NoEC ==
    (PreamblePrivateKeyRSA :> "ParsePKCS1PrivateKey")
    @@ (PreamblePrivateKeyPKCS8 :> "ParsePKCS8PrivateKey")

keyParsers ==
    (PreamblePrivateKeyRSA :> "ParsePKCS1PrivateKey")
    @@ (PreamblePrivateKeyEC :> "ParseECPrivateKey")
    @@ (PreamblePrivateKeyPKCS8 :> "ParsePKCS8PrivateKey")

\* parser(pemBlock.Bytes) for a parser taken from the registry
CallParser(parser, der, ecdh) ==
    CASE parser = "ParsePKCS1PrivateKey" -> ParsePKCS1PrivateKey(der)
      [] parser = "ParseECPrivateKey" -> ParseECPrivateKey(der)
      [] parser = "ParsePKCS8PrivateKey" -> ParsePKCS8PrivateKey(der, ecdh)

\* privateKeyToAlgorithm with the pointer form of the RSA case left out
privateKeyToAlgorithm_NoRSAPointer(prvKey) ==
    CASE prvKey.shape \in {"rsa.PrivateKey"} ->
            [algorithm |-> RSA, err |-> NilErr]
      [] prvKey.shape \in {"ecdsa.PrivateKey", "*ecdsa.PrivateKey"} ->
            [algorithm |-> ECDSA, err |-> NilErr]
      [] prvKey.shape \in {"ed25519.PrivateKey", "*ed25519.PrivateKey"} ->
            [algorithm |-> ED25519, err |-> NilErr]
      [] OTHER ->
            [algorithm |-> "", err |-> [kind |-> "unsupported private key type", type |-> prvKey.shape]]

\* privateKeyToAlgorithm with the owned-value form of the Ed25519 case left out
privateKeyToAlgorithm_NoEd25519Value(prvKey) ==
    CASE prvKey.shape \in {"rsa.PrivateKey", "*rsa.PrivateKey"} ->
            [algorithm |-> RSA, err |-> NilErr]
      [] prvKey.shape \in {"ecdsa.PrivateKey", "*ecdsa.PrivateKey"} ->
            [algorithm |-> ECDSA, err |-> NilErr]
      [] prvKey.shape \in {"*ed25519.PrivateKey"} ->
            [algorithm |-> ED25519, err |-> NilErr]
      [] OTHER ->
            [algorithm |-> "", err |-> [kind |-> "unsupported private key type", type |-> prvKey.shape]]

privateKeyToAlgorithm(prvKey) ==
    CASE prvKey.shape \in {"rsa.PrivateKey", "*rsa.PrivateKey"} ->
            [algorithm |-> RSA, err |-> NilErr]
      [] prvKey.shape \in {"ecdsa.PrivateKey", "*ecdsa.PrivateKey"} ->
            [algorithm |-> ECDSA, err |-> NilErr]
      [] prvKey.shape \in {"ed25519.PrivateKey", "*ed25519.PrivateKey"} ->
            [algorithm |-> ED25519, err |-> NilErr]
      [] OTHER ->
            [algorithm |-> "", err |-> [kind |-> "unsupported private key type", type |-> prvKey.shape]]

Return(key, algorithm, err) == [key |-> key, algorithm |-> algorithm, err |-> err]

\* parsePrivateKeyPEM with the two byte counts of the PEM error exchanged
parsePrivateKeyPEM_CountsSwapped(reg, ecdh, keyPEMBytes) ==
    LET d == Decode(keyPEMBytes)
        pemBlock == d.block
        rest == d.rest
        c == pemBlockToPEMPreamble(pemBlock)
        preamble == c.preamble
        parser == reg[preamble]
        p == CallParser(parser, pemBlock.Bytes, ecdh)
        prvKey == p.key
        a == privateKeyToAlgorithm(prvKey)
    IN  IF pemBlock = NilBlock
        THEN Return(NilKey, "", [kind |-> "MalformedPEM",
                                 decoded |-> ByteLen(rest),
                                 undecoded |-> ByteLen(keyPEMBytes) - ByteLen(rest)])
        ELSE IF c.err # NilErr
        THEN Return(NilKey, "", c.err)
        ELSE IF preamble \notin DOMAIN reg
        THEN Return(NilKey, "", [kind |-> "NoParser", preamble |-> preamble])
        ELSE IF p.err # NilErr
        THEN Return(NilKey, "", [kind |-> "KeyDecodeFailed", preamble |-> preamble,
                                 cause |-> p.err])
        ELSE IF a.err # NilErr
        THEN Return(NilKey, "", [kind |-> "UnsupportedKeyType", type |-> prvKey.shape,
                                 cause |-> a.err])
        ELSE Return(prvKey, a.algorithm, NilErr)

\* parsePrivateKeyPEM wrapping the classifier's error instead of returning it
parsePrivateKeyPEM_WrapsClassifier(reg, ecdh, keyPEMBytes) ==
    LET d == Decode(keyPEMBytes)
        pemBlock == d.block
        rest == d.rest
        c == pemBlockToPEMPreamble(pemBlock)
        preamble == c.preamble
        parser == reg[preamble]
        p == CallParser(parser, pemBlock.Bytes, ecdh)
        prvKey == p.key
        a == privateKeyToAlgorithm(prvKey)
    IN  IF pemBlock = NilBlock
        THEN Return(NilKey, "", [kind |-> "MalformedPEM",
                                 decoded |-> ByteLen(keyPEMBytes) - ByteLen(rest),
                                 undecoded |-> ByteLen(rest)])
        ELSE IF c.err # NilErr
        THEN Return(NilKey, "", [kind |-> "UnrecognizedPreamble", cause |-> c.err])
        ELSE IF preamble \notin DOMAIN reg
        THEN Return(NilKey, "", [kind |-> "NoParser", preamble |-> preamble])
        ELSE IF p.err # NilErr
        THEN Return(NilKey, "", [kind |-> "KeyDecodeFailed", preamble |-> preamble,
                                 cause |-> p.err])
        ELSE IF a.err # NilErr
        THEN Return(NilKey, "", [kind |-> "UnsupportedKeyType", type |-> prvKey.shape,
                                 cause |-> a.err])
        ELSE Return(prvKey, a.algorithm, NilErr)

\* parsePrivateKeyPEM trying the generic PKCS#8 routine when the selected one fails
parsePrivateKeyPEM_Fallback(reg, ecdh, keyPEMBytes) ==
    LET d == Decode(keyPEMBytes)
        pemBlock == d.block
        rest == d.rest
        c == pemBlockToPEMPreamble(pemBlock)
        preamble == c.preamble
        parser == reg[preamble]
        p == CallParser(parser, pemBlock.Bytes, ecdh)
        prvKey == p.key
        a == privateKeyToAlgorithm(prvKey)
    IN  IF pemBlock = NilBlock
        THEN Return(NilKey, "", [kind |-> "MalformedPEM",
                                 decoded |-> ByteLen(keyPEMBytes) - ByteLen(rest),
                                 undecoded |-> ByteLen(rest)])
        ELSE IF c.err # NilErr
        THEN Return(NilKey, "", c.err)
        ELSE IF preamble \notin DOMAIN reg
        THEN Return(NilKey, "", [kind |-> "NoParser", preamble |-> preamble])
        ELSE IF p.err # NilErr /\ ParsePKCS8PrivateKey(pemBlock.Bytes, ecdh).err = NilErr
        THEN LET q == ParsePKCS8PrivateKey(pemBlock.Bytes, ecdh).key
             IN  Return(q, privateKeyToAlgorithm(q).algorithm, privateKeyToAlgorithm(q).err)
        ELSE IF p.err # NilErr
        THEN Return(NilKey, "", [kind |-> "KeyDecodeFailed", preamble |-> preamble,
                                 cause |-> p.err])
        ELSE IF a.err # NilErr
        THEN Return(NilKey, "", [kind |-> "UnsupportedKeyType", type |-> prvKey.shape,
                                 cause |-> a.err])
        ELSE Return(prvKey, a.algorithm, NilErr)

\* parsePrivateKeyPEM refusing bytes after the first PEM block
parsePrivateKeyPEM_Strict(reg, ecdh, keyPEMBytes) ==
    LET d == Decode(keyPEMBytes)
        pemBlock == d.block
        rest == d.rest
        c == pemBlockToPEMPreamble(pemBlock)
        preamble == c.preamble
        parser == reg[preamble]
        p == CallParser(parser, pemBlock.Bytes, ecdh)
        prvKey == p.key
        a == privateKeyToAlgorithm(prvKey)
    IN  IF pemBlock = NilBlock
        THEN Return(NilKey, "", [kind |-> "MalformedPEM",
                                 decoded |-> ByteLen(keyPEMBytes) - ByteLen(rest),
                                 undecoded |-> ByteLen(rest)])
        ELSE IF rest # EmptyInput
        THEN Return(NilKey, "", [kind |-> "MalformedPEM",
                                 decoded |-> ByteLen(keyPEMBytes) - ByteLen(rest),
                                 undecoded |-> ByteLen(rest)])
        ELSE IF c.err # NilErr
        THEN Return(NilKey, "", c.err)
        ELSE IF preamble \notin DOMAIN reg
        THEN Return(NilKey, "", [kind |-> "NoParser", preamble |-> preamble])
        ELSE IF p.err # NilErr
        THEN Return(NilKey, "", [kind |-> "KeyDecodeFailed", preamble |-> preamble,
                                 cause |-> p.err])
        ELSE IF a.err # NilErr
        THEN Return(NilKey, "", [kind |-> "UnsupportedKeyType", type |-> prvKey.shape,
                                 cause |-> a.err])
        ELSE Return(prvKey, a.algorithm, NilErr)

\* parsePrivateKeyPEM returning the decoded key along with the algorithm error
parsePrivateKeyPEM_LeaksKey(reg, ecdh, keyPEMBytes) ==
    LET d == Decode(keyPEMBytes)
        pemBlock == d.block
        rest == d.rest
        c == pemBlockToPEMPreamble(pemBlock)
        preamble == c.preamble
        parser == reg[preamble]
        p == CallParser(parser, pemBlock.Bytes, ecdh)
        prvKey == p.key
        a == privateKeyToAlgorithm(prvKey)
    IN  IF pemBlock = NilBlock
        THEN Return(NilKey, "", [kind |-> "MalformedPEM",
                                 decoded |-> ByteLen(keyPEMBytes) - ByteLen(rest),
                                 undecoded |-> ByteLen(rest)])
        ELSE IF c.err # NilErr
        THEN Return(NilKey, "", c.err)
        ELSE IF preamble \notin DOMAIN reg
        THEN Return(NilKey, "", [kind |-> "NoParser", preamble |-> preamble])
        ELSE IF p.err # NilErr
        THEN Return(NilKey, "", [kind |-> "KeyDecodeFailed", preamble |-> preamble,
                                 cause |-> p.err])
        ELSE IF a.err # NilErr
        THEN Return(prvKey, "", [kind |-> "UnsupportedKeyType", type |-> prvKey.shape,
                                 cause |-> a.err])
        ELSE Return(prvKey, a.algorithm, NilErr)

parsePrivateKeyPEM(reg, ecdh, keyPEMBytes) ==
    LET d == Decode(keyPEMBytes)
        pemBlock == d.block
        rest == d.rest
        c == pemBlockToPEMPreamble(pemBlock)
        preamble == c.preamble
        parser == reg[preamble]
        p == CallParser(parser, pemBlock.Bytes, ecdh)
        prvKey == p.key
        a == privateKeyToAlgorithm(prvKey)
    IN  IF pemBlock = NilBlock
        THEN Return(NilKey, "", [kind |-> "MalformedPEM",
                                 decoded |-> ByteLen(keyPEMBytes) - ByteLen(rest),
                                 undecoded |-> ByteLen(rest)])
        ELSE IF c.err # NilErr
        THEN Return(NilKey, "", c.err)
        ELSE IF preamble \notin DOMAIN reg
        THEN Return(NilKey, "", [kind |-> "NoParser", preamble |-> preamble])
        ELSE IF p.err # NilErr
        THEN Return(NilKey, "", [kind |-> "KeyDecodeFailed", preamble |-> preamble,
                                 cause |-> p.err])
        ELSE IF a.err # NilErr
        THEN Return(NilKey, "", [kind |-> "UnsupportedKeyType", type |-> prvKey.shape,
                                 cause |-> a.err])
        ELSE Return(prvKey, a.algorithm, NilErr)

----------------------------------------------------------------------------
(* Inputs *)

KeyIds == 1..NumKeys
Garbage == [enc |-> "GARBAGE", alg |-> "none", id |-> 0]

\* DER payloads: each legacy encoding, PKCS#8 around each algorithm x509
\* knows (the three supported ones and X25519), and bytes that are no DER
Payloads ==
    {[enc |-> "PKCS1", alg |-> RSA, id |-> n] : n \in KeyIds}
    \cup {[enc |-> "SEC1", alg |-> ECDSA, id |-> n] : n \in KeyIds}
    \cup {[enc |-> "PKCS8", alg |-> a, id |-> n] : a \in Algorithms \cup {"X25519"}, n \in KeyIds}
    \cup {Garbage}

\* labels outside the supported set: another PEM type, wrong case, extra
\* whitespace, a partial match, the empty label
OtherLabels == {"CERTIFICATE", "rsa private key", "PRIVATE KEY ", "RSA PRIVATE", ""}
Labels == Preambles \cup OtherLabels

BeginLine(label) == [k |-> "BEGIN", label |-> label]
EndLine(label, junk) == [k |-> "END", label |-> label, junk |-> junk]
DataLine(der) == [k |-> "DATA", der |-> der]
TextLine == [k |-> "TEXT"]
EmptyLine == [k |-> "EMPTY"]

\* one PEM block, with or without the newline after its END line
Envelope(label, der, nl) ==
    [lines |-> <<BeginLine(label), DataLine(der), EndLine(label, FALSE)>>, nl |-> nl]

\* the lines free-form inputs are made of
FrameLabels == {PreamblePrivateKeyPKCS8, "CERTIFICATE"}
FramePayloads == {[enc |-> "PKCS8", alg |-> ED25519, id |-> 1], Garbage}
FrameLines ==
    {BeginLine(l) : l \in FrameLabels}
    \cup {EndLine(l, j) : l \in FrameLabels, j \in BOOLEAN}
    \cup {DataLine(d) : d \in FramePayloads}
    \cup {TextLine, EmptyLine}

SeqsUpTo(S, n) == UNION {[1..m -> S] : m \in 0..n}

\* distinct byte strings only: the empty input has no newline to end, and a
\* blank last line without its newline adds no byte
WellFormedInput(data) ==
    /\ data.lines = <<>> => ~data.nl
    /\ (data.lines # <<>> /\ ~data.nl) => data.lines[Len(data.lines)].k # "EMPTY"

InputsUpTo(n) ==
    {data \in [lines : SeqsUpTo(FrameLines, n), nl : BOOLEAN] : WellFormedInput(data)}

\* append(first, trailing...), for a first input that ends in an END line:
\* without a newline in between, the trailing bytes continue that line
AppendTrailing(first, t) ==
    IF t.lines = <<>> THEN first
    ELSE IF first.nl THEN [lines |-> first.lines \o t.lines, nl |-> t.nl]
    ELSE LET n == Len(first.lines)
             last == first.lines[n]
             joined == IF Head(t.lines).k = "EMPTY" THEN last
                       ELSE EndLine(last.label, TRUE)
         IN  [lines |-> SubSeq(first.lines, 1, n - 1) \o <<joined>> \o Tail(t.lines),
              nl |-> t.nl]

\* the encoders of the round trip: x509.Marshal*PrivateKey and pem.Encode
GeneratedKey(alg, id) ==
    CASE alg = RSA -> [shape |-> "*rsa.PrivateKey", id |-> id]
      [] alg = ECDSA -> [shape |-> "*ecdsa.PrivateKey", id |-> id]
      [] alg = ED25519 -> [shape |-> "ed25519.PrivateKey", id |-> id]

Marshal(preamble, alg, id) ==
    CASE preamble = PreamblePrivateKeyRSA -> [enc |-> "PKCS1", alg |-> alg, id |-> id]
      [] preamble = PreamblePrivateKeyEC -> [enc |-> "SEC1", alg |-> alg, id |-> id]
      [] preamble = PreamblePrivateKeyPKCS8 -> [enc |-> "PKCS8", alg |-> alg, id |-> id]

EncodeToMemory(label, der) == Envelope(label, der, TRUE)

\* the (preamble, algorithm) pairs a key can be validly encoded under
Matching ==
    {<<PreamblePrivateKeyRSA, RSA>>, <<PreamblePrivateKeyEC, ECDSA>>}
    \cup {<<PreamblePrivateKeyPKCS8, a>> : a \in Algorithms}

Variants == {"rsa.PrivateKey", "ecdsa.PrivateKey", "ed25519.PrivateKey", "ecdh.PrivateKey"}
Pointer(variant) ==
    CASE variant = "rsa.PrivateKey" -> "*rsa.PrivateKey"
      [] variant = "ecdsa.PrivateKey" -> "*ecdsa.PrivateKey"
      [] variant = "ed25519.PrivateKey" -> "*ed25519.PrivateKey"
      [] variant = "ecdh.PrivateKey" -> "*ecdh.PrivateKey"

----------------------------------------------------------------------------------------------------------------------------------------------
(* The state machine.  Under Spec the initial state holds one call, drawn  *)
(* from every kind of call and every input of the bounds, and the action   *)
(* of that kind makes it; under SpecCalls (below) a process makes a        *)
(* sequence of calls.                                                      *)

NoAux == [none |-> TRUE]
NoCall == [kind |-> "none"]

FirstEnvelopes == {Envelope(l, d, nl) : l \in FrameLabels, d \in FramePayloads, nl \in BOOLEAN}

\* the calls: parsePrivateKeyPEM on free-form bytes, on one PEM block of any
\* label around any payload, on the encoding of a generated key, on a PEM
\* block followed by trailing bytes; privateKeyToAlgorithm on a key type
Calls ==
    {[kind |-> "lines", data |-> d] : d \in InputsUpTo(MaxLines)}
    \cup {[kind |-> "envelope", label |-> l, der |-> d, nl |-> nl] :
            l \in Labels, d \in Payloads, nl \in BOOLEAN}
    \cup {[kind |-> "roundtrip", preamble |-> m[1], alg |-> m[2], id |-> n] :
            m \in Matching, n \in KeyIds}
    \cup {[kind |-> "trailing", first |-> f, trailing |-> t] :
            f \in FirstEnvelopes, t \in InputsUpTo(MaxTrail)}
    \cup {[kind |-> "classify", variant |-> v, id |-> n] : v \in Variants, n \in KeyIds}

Start(c) ==
    /\ registry = keyParsers
    /\ hasECDH \in BOOLEAN
    /\ call = c
    /\ op = "init"
    /\ input = EmptyInput
    /\ result = Return(NilKey, "", NilErr)
    /\ aux = NoAux
    /\ history = {}
    /\ ncalls = 0

Init == \E c \in Calls : Start(c)

\* parsePrivateKeyPEM on free-form bytes
ParseLines ==
    /\ call.kind = "lines"
    /\ op' = "lines"
    /\ input' = call.data
    /\ result' = parsePrivateKeyPEM(registry, hasECDH, call.data)
    /\ aux' = NoAux
    /\ UNCHANGED <<registry, hasECDH, call, history, ncalls>>

\* parsePrivateKeyPEM on one PEM block of any label around any payload
ParseEnvelope ==
    /\ call.kind = "envelope"
    /\ op' = "envelope"
    /\ input' = Envelope(call.label, call.der, call.nl)
    /\ result' = parsePrivateKeyPEM(registry, hasECDH, Envelope(call.label, call.der, call.nl))
    /\ aux' = [label |-> call.label, der |-> call.der]
    /\ UNCHANGED <<registry, hasECDH, call, history, ncalls>>

\* generate a key, encode it under a matching preamble, parse it back
RoundTrip ==
    /\ call.kind = "roundtrip"
    /\ op' = "roundtrip"
    /\ input' = EncodeToMemory(call.preamble, Marshal(call.preamble, call.alg, call.id))
    /\ result' = parsePrivateKeyPEM(registry, hasECDH,
                    EncodeToMemory(call.preamble, Marshal(call.preamble, call.alg, call.id)))
    /\ aux' = [preamble |-> call.preamble, alg |-> call.alg, id |-> call.id]
    /\ UNCHANGED <<registry, hasECDH, call, history, ncalls>>

\* parsePrivateKeyPEM on a PEM block followed by trailing bytes
ParseWithTrailing ==
    /\ call.kind = "trailing"
    /\ op' = "trailing"
    /\ input' = AppendTrailing(call.first, call.trailing)
    /\ result' = parsePrivateKeyPEM(registry, hasECDH, AppendTrailing(call.first, call.trailing))
    /\ aux' = [first |-> call.first, trailing |-> call.trailing]
    /\ UNCHANGED <<registry, hasECDH, call, history, ncalls>>

\* privateKeyToAlgorithm on the owned value and on the pointer of a variant
Classify ==
    /\ call.kind = "classify"
    /\ op' = "classify"
    /\ aux' = [variant |-> call.variant,
               value |-> privateKeyToAlgorithm([shape |-> call.variant, id |-> call.id]),
               pointer |-> privateKeyToAlgorithm([shape |-> Pointer(call.variant),
                                                  id |-> call.id])]
    /\ UNCHANGED <<registry, hasECDH, call, input, result, history, ncalls>>

Next ==
    \/ ParseLines
    \/ ParseEnvelope
    \/ RoundTrip
    \/ ParseWithTrailing
    \/ Classify

Spec == Init /\ [][Next]_vars

\* A sequence of calls in one process, each recorded with what it returned
CallInputs ==
    {Envelope(m[1], Marshal(m[1], m[2], 1), TRUE) : m \in Matching}
    \cup {Envelope(PreamblePrivateKeyRSA, Marshal(PreamblePrivateKeyPKCS8, ECDSA, 1), TRUE),
          Envelope("CERTIFICATE", Garbage, TRUE),
          EmptyInput}

\* Call with a parser that, once it has failed under a preamble, replaces
\* that preamble's registry entry by the generic PKCS#8 routine
Call_Registers(data) ==
    LET r == parsePrivateKeyPEM(registry, hasECDH, data)
    IN  /\ ncalls < MaxCalls
        /\ op' = "call"
        /\ input' = data
        /\ result' = r
        /\ history' = history \cup {<<data, r>>}
        /\ ncalls' = ncalls + 1
        /\ registry' = IF r.err.kind = "KeyDecodeFailed"
                       THEN [registry EXCEPT ![r.err.preamble] = "ParsePKCS8PrivateKey"]
                       ELSE registry
        /\ UNCHANGED <<hasECDH, call, aux>>

Call(data) ==
    /\ ncalls < MaxCalls
    /\ op' = "call"
    /\ input' = data
    /\ result' = parsePrivateKeyPEM(registry, hasECDH, data)
    /\ history' = history \cup {<<data, parsePrivateKeyPEM(registry, hasECDH, data)>>}
    /\ ncalls' = ncalls + 1
    /\ UNCHANGED <<registry, hasECDH, call, aux>>

NextCalls == \E data \in CallInputs : Call(data)

InitCalls == Start(NoCall)

SpecCalls == InitCalls /\ [][NextCalls]_vars

----------------------------------------------------------------------------
(* Properties *)

ParseOps == {"lines", "envelope", "roundtrip", "trailing", "call"}
Succeeded == op \in ParseOps /\ result.err = NilErr

\* the variant a Go type is a form of, owned or pointer
VariantOf(shape) ==
    IF shape \in {"rsa.PrivateKey", "*rsa.PrivateKey"} THEN "RSA key"
    ELSE IF shape \in {"ecdsa.PrivateKey", "*ecdsa.PrivateKey"} THEN "elliptic-curve key"
    ELSE IF shape \in {"ed25519.PrivateKey", "*ed25519.PrivateKey"} THEN "Edwards-curve key"
    ELSE "other"

\* C1: whenever parsePrivateKeyPEM returns without error, the Algorithm is
\* RSA exactly when the key is an RSA key, ECDSA exactly when it is an
\* elliptic-curve key and ED25519 exactly when it is an Edwards-curve key,
\* whatever the preamble; and privateKeyToAlgorithm gives the owned value
\* and the pointer of a supported variant the same Algorithm.
C1_AlgorithmNamesVariant ==
    /\ Succeeded =>
        /\ result.algorithm = RSA <=> VariantOf(result.key.shape) = "RSA key"
        /\ result.algorithm = ECDSA <=> VariantOf(result.key.shape) = "elliptic-curve key"
        /\ result.algorithm = ED25519 <=> VariantOf(result.key.shape) = "Edwards-curve key"
    /\ op = "classify" =>
        /\ aux.value.algorithm = aux.pointer.algorithm
        /\ (aux.value.err = NilErr) <=> (aux.pointer.err = NilErr)
        /\ aux.variant # "ecdh.PrivateKey" => aux.value.err = NilErr
        /\ aux.value.algorithm = RSA <=> aux.variant = "rsa.PrivateKey"
        /\ aux.value.algorithm = ECDSA <=> aux.variant = "ecdsa.PrivateKey"
        /\ aux.value.algorithm = ED25519 <=> aux.variant = "ed25519.PrivateKey"

\* an RSA key decoded under the generic PKCS#8 preamble is classified RSA
C1_Witness ==
    /\ op = "envelope" /\ aux.label = PreamblePrivateKeyPKCS8
    /\ result.err = NilErr /\ result.key.shape = "*rsa.PrivateKey" /\ result.algorithm = RSA

\* C2: a key of each algorithm, encoded under a matching preamble, decodes
\* without error to the algorithm it was generated with and to a key equal
\* to the original; PKCS#8 around an Ed25519 key gives ED25519.
C2_RoundTrip ==
    op = "roundtrip" =>
        /\ result.err = NilErr
        /\ result.algorithm = aux.alg
        /\ result.key = GeneratedKey(aux.alg, aux.id)

C2_Witness ==
    /\ op = "roundtrip" /\ aux.preamble = PreamblePrivateKeyPKCS8 /\ aux.alg = ED25519
    /\ result.algorithm = ED25519 /\ result.key.shape = "ed25519.PrivateKey"

\* line i opens a PEM block that frames correctly: the first END line after
\* it carries the same label and nothing else, and what lies between is
\* base64 text
EnvelopeAt(ls, i) ==
    /\ ls[i].k = "BEGIN"
    /\ \E j \in (i + 1)..Len(ls) :
        /\ ls[j].k = "END"
        /\ \A m \in (i + 1)..(j - 1) : ls[m].k # "END"
        /\ ls[j].label = ls[i].label
        /\ ~ls[j].junk
        /\ \A m \in (i + 1)..(j - 1) : ls[m].k \in {"DATA", "EMPTY"}
        /\ \A m, n \in (i + 1)..(j - 1) : (ls[m].k = "DATA" /\ ls[n].k = "DATA") => m = n

HasEnvelope(data) == \E i \in 1..Len(data.lines) : EnvelopeAt(data.lines, i)

\* C3: on an input in which no PEM envelope is found, the call fails with
\* MalformedPEM and no key; the error carries the consumed and the
\* unconsumed byte counts of the input (nothing is consumed, all of the
\* input is unconsumed); no later step decides the outcome.
C3_MalformedPEM ==
    (op \in ParseOps /\ ~HasEnvelope(input)) =>
        /\ result.key = NilKey
        /\ result.algorithm = ""
        /\ result.err.kind = "MalformedPEM"
        /\ result.err.decoded + result.err.undecoded = ByteLen(input)
        /\ result.err.decoded = 0
        /\ result.err.undecoded = ByteLen(input)

\* a BEGIN line, a payload and an END line of another label
C3_Witness ==
    /\ op = "lines" /\ Len(input.lines) = 3
    /\ input.lines[1].k = "BEGIN" /\ input.lines[2].k = "DATA" /\ input.lines[3].k = "END"
    /\ ~HasEnvelope(input)
    /\ result.err.kind = "MalformedPEM" /\ result.err.undecoded > 0

\* C4: a well-formed envelope whose label is not exactly one of the three
\* supported ones fails, whatever its payload, with UnrecognizedPreamble
\* carrying that label: the call returns the classifier's error itself, and
\* no key.
C4_UnrecognizedPreamble ==
    (op = "envelope" /\ aux.label \notin {"RSA PRIVATE KEY", "EC PRIVATE KEY", "PRIVATE KEY"}) =>
        /\ result.key = NilKey
        /\ result.algorithm = ""
        /\ result.err = [kind |-> "UnrecognizedPreamble", label |-> aux.label]
        /\ result.err = pemBlockToPEMPreamble([Type |-> aux.label, Bytes |-> aux.der]).err

\* a label that differs from a supported one by case only, over a payload
\* the RSA routine would accept
C4_Witness ==
    /\ op = "envelope" /\ aux.label = "rsa private key" /\ aux.der.enc = "PKCS1"
    /\ result.err.kind = "UnrecognizedPreamble" /\ result.err.label = "rsa private key"

\* the routine the label selects (PKCS#1 for RSA PRIVATE KEY, SEC1 for EC
\* PRIVATE KEY, PKCS#8 for PRIVATE KEY) applied to the payload
SelectedRoutine(label, der) ==
    CASE label = "RSA PRIVATE KEY" -> ParsePKCS1PrivateKey(der)
      [] label = "EC PRIVATE KEY" -> ParseECPrivateKey(der)
      [] label = "PRIVATE KEY" -> ParsePKCS8PrivateKey(der, hasECDH)

\* C5: the routine is chosen by the label alone; when it rejects the
\* payload the call fails with KeyDecodeFailed carrying the preamble and
\* that routine's error, also when another routine would accept the payload.
C5_NoFallback ==
    (op = "envelope" /\ aux.label \in Preambles
        /\ SelectedRoutine(aux.label, aux.der).err # NilErr) =>
        /\ result.key = NilKey
        /\ result.algorithm = ""
        /\ result.err = [kind |-> "KeyDecodeFailed", preamble |-> aux.label,
                         cause |-> SelectedRoutine(aux.label, aux.der).err]

\* RSA PRIVATE KEY over valid PKCS#8 EC key DER
C5_Witness ==
    /\ op = "envelope" /\ aux.label = "RSA PRIVATE KEY"
    /\ aux.der.enc = "PKCS8" /\ aux.der.alg = ECDSA
    /\ ParsePKCS8PrivateKey(aux.der, hasECDH).err = NilErr
    /\ result.err.kind = "KeyDecodeFailed" /\ result.err.preamble = "RSA PRIVATE KEY"

\* the trailing bytes start on a line of their own, or with a blank rest of
\* the END line
OnOwnLine(first, t) ==
    first.nl \/ t.lines = <<>> \/ Head(t.lines).k = "EMPTY"

\* C6 as stated: a valid envelope followed by any trailing bytes gives the
\* outcome of the envelope alone.
C6_TrailingIgnored ==
    op = "trailing" => result = parsePrivateKeyPEM(registry, hasECDH, aux.first)

\* C6 amended: a valid envelope followed by trailing bytes gives the outcome
\* of the envelope alone, provided the trailing bytes do not continue the
\* envelope's END line with non-blank bytes.
C6_TrailingIgnoredOnOwnLine ==
    (op = "trailing" /\ OnOwnLine(aux.first, aux.trailing)) =>
        result = parsePrivateKeyPEM(registry, hasECDH, aux.first)

\* a valid block followed, on a new line, by a second valid block of
\* another label and payload
C6_Witness ==
    /\ op = "trailing" /\ OnOwnLine(aux.first, aux.trailing)
    /\ HasEnvelope(aux.trailing) /\ HasEnvelope(aux.first)
    /\ aux.first.lines[1].label = PreamblePrivateKeyPKCS8
    /\ aux.trailing.lines[1] = BeginLine("CERTIFICATE")
    /\ result.err = NilErr /\ result.algorithm = ED25519

\* the calls of the history that were given the same input returned equal
\* results
Idempotent ==
    \A h1, h2 \in history : h1[1] = h2[1] => h1[2] = h2[2]

UnsupportedIsDefensive ==
    (op = "envelope" /\ result.err.kind = "UnsupportedKeyType") =>
        /\ aux.label \in Preambles
        /\ SelectedRoutine(aux.label, aux.der).err = NilErr
        /\ VariantOf(SelectedRoutine(aux.label, aux.der).key.shape) = "other"
        /\ result.err.type = SelectedRoutine(aux.label, aux.der).key.shape

\* C8 as stated: UnsupportedKeyType comes only from a routine that returned
\* an unexpected shape, whose name it carries, and no payload a registered
\* routine accepts makes the call fail with UnsupportedKeyType.
C8_UnsupportedUnreachable ==
    /\ UnsupportedIsDefensive
    /\ op = "envelope" => result.err.kind # "UnsupportedKeyType"

\* C8 amended: UnsupportedKeyType comes only from a routine that returned a
\* shape that is none of the three variants, whose name it carries; the
\* registered routines do reach it: with an x509 that decodes X25519 keys,
\* PRIVATE KEY around a PKCS#8 X25519 key fails with UnsupportedKeyType for
\* *ecdh.PrivateKey, and no other payload does.
C8_UnsupportedOnlyX25519 ==
    /\ UnsupportedIsDefensive
    /\ op = "envelope" =>
        ((result.err.kind = "UnsupportedKeyType")
            <=> (/\ hasECDH
                 /\ aux.label = "PRIVATE KEY"
                 /\ aux.der.enc = "PKCS8"
                 /\ aux.der.alg = "X25519"))
    /\ (op = "envelope" /\ result.err.kind = "UnsupportedKeyType") =>
        result.err.type = "*ecdh.PrivateKey"

C8_Witness ==
    /\ op = "envelope" /\ aux.label = "PRIVATE KEY" /\ aux.der.alg = "X25519"
    /\ result.err.kind = "UnsupportedKeyType" /\ result.key = NilKey

\* the step of the pipeline that fails first on the last input: 1 PEM
\* decode, 2 preamble classification, 3 decoder lookup, 4 key decode,
\* 5 algorithm classification; 0 if none fails
FirstFailingStep ==
    LET block == Decode(input).block
        label == block.Type
        key == SelectedRoutine(label, block.Bytes)
    IN  IF ~HasEnvelope(input) THEN 1
        ELSE IF label \notin {"RSA PRIVATE KEY", "EC PRIVATE KEY", "PRIVATE KEY"} THEN 2
        ELSE IF label \notin DOMAIN registry THEN 3
        ELSE IF key.err # NilErr THEN 4
        ELSE IF VariantOf(key.key.shape) = "other" THEN 5
        ELSE 0

StepError(n) ==
    CASE n = 0 -> "nil"
      [] n = 1 -> "MalformedPEM"
      [] n = 2 -> "UnrecognizedPreamble"
      [] n = 3 -> "NoParser"
      [] n = 4 -> "KeyDecodeFailed"
      [] n = 5 -> "UnsupportedKeyType"

\* C9: every call ends either with a key, a non-empty Algorithm and no
\* error, or with one error, no key and the empty Algorithm; the error is
\* that of the first step that fails, in the order PEM decode, preamble
\* classification, decoder lookup, key decode, algorithm classification.
C9_OneOutcome ==
    op \in ParseOps =>
        /\ \/ result.err = NilErr /\ result.key # NilKey /\ result.algorithm \in Algorithms
           \/ result.err # NilErr /\ result.key = NilKey /\ result.algorithm = ""
        /\ result.err.kind = StepError(FirstFailingStep)

\* the last step fails after the key decode succeeded, and the decoded key
\* is not returned
C9_Witness ==
    /\ op = "envelope" /\ FirstFailingStep = 5
    /\ ParsePKCS8PrivateKey(aux.der, hasECDH).key # NilKey
    /\ result.key = NilKey /\ result.algorithm = "" /\ result.err # NilErr

\* C10: the registry holds exactly three routines, one per Preamble, so the
\* lookup succeeds for every Preamble the classifier returns and no call
\* ends in the "unable to determine parser" error.
C10_RegistryTotal ==
    /\ Cardinality(DOMAIN registry) = 3
    /\ DOMAIN registry = {PreamblePrivateKeyRSA, PreamblePrivateKeyEC, PreamblePrivateKeyPKCS8}
    /\ \A label \in Labels :
        LET c == pemBlockToPEMPreamble([Type |-> label, Bytes |-> Garbage])
        IN  c.err = NilErr => c.preamble \in DOMAIN registry
    /\ op \in ParseOps => result.err.kind # "NoParser"

\* a call that got past the lookup under the EC preamble
C10_Witness ==
    /\ op = "envelope" /\ aux.label = PreamblePrivateKeyEC
    /\ result.err = NilErr /\ result.algorithm = ECDSA

====
